---- MODULE Spec2Model ----
(***************************************************************************)
(* Model of the nesto backend: the digest scheduler loop (app/main.py),    *)
(* the digest runners and the event recurrence expansion                   *)
(* (app/services/digest_service.py), the digest data gatherers of the same *)
(* file, and the task update of app/services/task_service.py.              *)
(*                                                                         *)
(* Wall-clock time is counted in seconds from 00:00:00 of day 0, and day 0 *)
(* is a Monday, so that date(), hour, minute and weekday() are computed    *)
(* from the clock the way datetime computes them.  The wall clock is       *)
(* monotonic: it is never set back.                                        *)
(***************************************************************************)
EXTENDS Integers, Sequences, FiniteSets, TLC

VARIABLES
    clock,              \* the wall clock, in seconds
    smtp_host,          \* settings.smtp_host is non-empty
    digest_daily_hour,  \* settings.digest_daily_hour
    digest_weekly_hour, \* settings.digest_weekly_hour
    dailyUsers,         \* number of users with email_digest_daily
    weeklyUsers,        \* number of users with email_digest_weekly
    last_daily_sent,    \* _last_daily_sent: a date or NoDate
    last_weekly_sent,   \* _last_weekly_sent: a date or NoDate
    pc,                 \* where the scheduler task is
    now,                \* the tick's datetime.now()
    rpc,                \* where the digest runner is
    rkind,              \* which runner: "daily", "weekly" or "none"
    idx,                \* users handled so far by the runner's for loop
    sent,               \* the runner's sent counter
    outcomes,           \* outcome of each per-user attempt of the run, in order
    ret,                \* value returned by the last run that returned
    cancelPending,      \* task.cancel() was called and is not yet delivered
    cancelled,          \* task.cancel() was called in this process lifetime
    upSince,            \* clock at which this process's loop was started
    dailyLog,           \* dates on which a daily run was started, all lifetimes
    weeklyLog,          \* dates on which a weekly run was started, all lifetimes
    nticks,             \* ticks evaluated so far
    nrestarts,          \* process restarts so far
    events,             \* expand_event_occurrences: the events argument
    range_start,        \* the window's start
    range_end,          \* the window's end
    epc,                \* where expand_event_occurrences is
    ev,                 \* index of the for loop's event in events
    cursor,             \* the while loop's cursor
    iterations,         \* the while loop's iteration counter
    occurrences,        \* the occurrences list
    task,               \* the stored row of the task that update_task updates
    tnow,               \* datetime.now(timezone.utc) of the next update_task call
    tlast,              \* the last update_task call: <<>> or <<[before, updates,
                        \* at, raised]>>
    today,              \* the gatherers' date.today()
    households,         \* the user's households: rows of events and of tasks
    gkind,              \* which gatherer: "daily", "weekly" or "none"
    gpc,                \* where the gatherer is
    hh,                 \* index of the for loop's household in households
    sections,           \* the sections gathered for each household so far
    digest_data,        \* the digest_data list
    atime,              \* time.time()
    jwks_cache,         \* _jwks_cache: "empty", or the key set it holds
    jwks_cache_time,    \* _jwks_cache_time
    jwks_lock,          \* the caller that holds _jwks_lock, or 0
    apc,                \* where each caller's decode_token is
    credentials,        \* the credentials of each caller's last call
    jnow,               \* the local now of the _get_jwks that is fetching
    result,             \* how each caller's last call ended
    flast,              \* how the last fetch that has ended ended
    fstored,            \* the last fetch that stored a key set: <<>> or
                        \* <<[at, keys]>>
    ncalls,             \* decode_token calls made so far
    acaller             \* the caller of the last decode_token call, or 0

schedVars == <<clock, smtp_host, digest_daily_hour, digest_weekly_hour,
               dailyUsers, weeklyUsers, last_daily_sent, last_weekly_sent,
               pc, now, rpc, rkind, idx, sent, outcomes, ret, cancelPending,
               cancelled, upSince, dailyLog, weeklyLog, nticks, nrestarts>>

expandVars == <<events, range_start, range_end, epc, ev, cursor, iterations,
                occurrences>>

taskVars == <<task, tnow, tlast>>

gatherVars == <<today, households, gkind, gpc, hh, sections, digest_data>>

authVars == <<atime, jwks_cache, jwks_cache_time, jwks_lock, apc, credentials,
              jnow, result, flast, fstored, ncalls, acaller>>

vars == <<schedVars, expandVars, taskVars, gatherVars, authVars>>

-----------------------------------------------------------------------------
(* Bounds of the model *)

MaxLagSecs == 1      \* a tick's processing and wake-up latency, in seconds
MaxStepSecs == 1     \* time one per-user gather-render-send attempt takes
MaxTicks == 3        \* ticks evaluated in one behaviour
MaxUsers == 1        \* opted-in users per digest period, under the scheduler
MaxRestarts == 1     \* process restarts in one behaviour
MaxRunUsers == 2     \* opted-in users when a runner is called directly
MaxInterval == 2     \* largest recurrence_interval of an expanded event
SeriesBlock == 6      \* the claims walk a series in blocks of this many units
SeriesLevels == 3     \* and in this many levels of blocks above single elements
SeriesYears == 5      \* years of the window a whole series is expanded over

-----------------------------------------------------------------------------
(* datetime arithmetic on the clock *)

SecondsPerDay == 24 * 60 * 60

DateOf(t) == t \div SecondsPerDay

HourOf(t) == (t % SecondsPerDay) \div (60 * 60)

MinuteOf(t) == (t % (60 * 60)) \div 60

\* datetime.weekday(): Monday is 0, Sunday is 6
WeekdayOf(t) == DateOf(t) % 7

NoDate == -1

SleepSeconds_Half == 60 \div 2

SleepSeconds == 60

Sunday == 6

-----------------------------------------------------------------------------
(* The conditions of a tick *)

DailyDue_EveryTickOfHour(t, last) ==
    /\ HourOf(t) = digest_daily_hour
    /\ smtp_host

DailyDue(t, last) ==
    /\ HourOf(t) = digest_daily_hour
    /\ MinuteOf(t) = 0
    /\ last # DateOf(t)
    /\ smtp_host

WeeklyDue_AnyWeekday(t, last) ==
    /\ HourOf(t) = digest_weekly_hour
    /\ MinuteOf(t) = 0
    /\ last # DateOf(t)
    /\ smtp_host

WeeklyDue(t, last) ==
    /\ WeekdayOf(t) = Sunday
    /\ HourOf(t) = digest_weekly_hour
    /\ MinuteOf(t) = 0
    /\ last # DateOf(t)
    /\ smtp_host

-----------------------------------------------------------------------------
(* The digest runners: run_daily_digest, run_weekly_digest *)

OptedIn(kind) == IF kind = "daily" THEN dailyUsers ELSE weeklyUsers

\* Settings declares no smtp_use_tls field, and send_digest_email reads it
smtp_use_tls_defined == FALSE

\* send_digest_email: returns at once when smtp_host is empty; otherwise it
\* builds the message and calls aiosmtplib.send with settings.smtp_use_tls
SendOutcomes ==
    IF ~smtp_host THEN {"ok"}
    ELSE IF smtp_use_tls_defined THEN {"ok", "send_raised"}
    ELSE {"send_raised"}

\* one iteration of the runner's for loop: gather, render, send
AttemptOutcomes == {"gather_raised"} \cup SendOutcomes

\* the runner's position after a per-user attempt raised: the except clause
\* logs and the for loop goes on
AfterUserFailure_Propagate == "raised"

AfterUserFailure == "users"

SentAfter(o) == IF o = "ok" THEN sent + 1 ELSE sent

StartRun(kind) ==
    /\ rpc' = "query"
    /\ rkind' = kind
    /\ idx' = 0
    /\ sent' = 0
    /\ outcomes' = <<>>
    /\ ret' = 0

RunnerIdle ==
    /\ rpc' = "idle"
    /\ rkind' = "none"
    /\ idx' = 0
    /\ sent' = 0
    /\ outcomes' = <<>>
    /\ ret' = 0

\* CancelledError was raised inside the runner, which is abandoned
RunnerCancelled ==
    /\ rpc' = "cancelled"
    /\ UNCHANGED <<rkind, idx, sent, outcomes, ret>>

configVars == <<smtp_host, digest_daily_hour, digest_weekly_hour,
                dailyUsers, weeklyUsers>>

loopVars == <<last_daily_sent, last_weekly_sent, pc, now, cancelPending,
              cancelled, upSince, dailyLog, weeklyLog, nticks, nrestarts>>

\* select(User).where(User.email_digest_... == True) returns the users
QueryUsers ==
    /\ rpc = "query"
    /\ ~cancelPending
    /\ rpc' = "users"
    /\ UNCHANGED <<authVars, expandVars, taskVars, gatherVars, clock, configVars, loopVars, rkind, idx, sent, outcomes, ret>>

\* the select raises: the exception leaves the runner
QueryFails ==
    /\ rpc = "query"
    /\ ~cancelPending
    /\ rpc' = "raised"
    /\ UNCHANGED <<authVars, expandVars, taskVars, gatherVars, clock, configVars, loopVars, rkind, idx, sent, outcomes, ret>>

UserAttempt(o, secs) ==
    /\ rpc = "users"
    /\ ~cancelPending
    /\ idx < OptedIn(rkind)
    /\ clock' = clock + secs
    /\ outcomes' = Append(outcomes, o)
    /\ sent' = SentAfter(o)
    /\ IF o = "ok"
       THEN rpc' = "users" /\ idx' = idx + 1
       ELSE rpc' = AfterUserFailure /\ idx' = idx + 1
    /\ UNCHANGED <<authVars, expandVars, taskVars, gatherVars, configVars, loopVars, rkind, ret>>

RunReturn ==
    /\ rpc = "users"
    /\ ~cancelPending
    /\ idx = OptedIn(rkind)
    /\ rpc' = "returned"
    /\ ret' = sent
    /\ UNCHANGED <<authVars, expandVars, taskVars, gatherVars, clock, configVars, loopVars, rkind, idx, sent, outcomes>>

-----------------------------------------------------------------------------
(* _digest_scheduler_loop *)

\* the weekly if statement of a tick whose datetime.now() was t
WeeklyIf(t) ==
    IF WeeklyDue(t, last_weekly_sent)
    THEN /\ pc' = "weekly_run"
         /\ StartRun("weekly")
         /\ weeklyLog' = Append(weeklyLog, DateOf(t))
    ELSE /\ pc' = "sleep"
         /\ RunnerIdle
         /\ weeklyLog' = weeklyLog

\* asyncio.sleep(60) returns, now = datetime.now(), and the daily and weekly
\* conditions are evaluated up to the first await
Tick(lag) ==
    /\ pc = "sleep"
    /\ ~cancelPending
    /\ nticks < MaxTicks
    /\ clock' = clock + SleepSeconds + lag
    /\ now' = clock'
    /\ nticks' = nticks + 1
    /\ IF DailyDue(now', last_daily_sent)
       THEN /\ pc' = "daily_run"
            /\ StartRun("daily")
            /\ dailyLog' = Append(dailyLog, DateOf(now'))
            /\ weeklyLog' = weeklyLog
       ELSE /\ WeeklyIf(now')
            /\ dailyLog' = dailyLog
    /\ UNCHANGED <<authVars, expandVars, taskVars, gatherVars, configVars, last_daily_sent, last_weekly_sent,
                   cancelPending, cancelled, upSince, nrestarts>>

\* a loop that records the day only when the run has sent something
DailyReturned_OnlyIfSent ==
    /\ pc = "daily_run"
    /\ rpc = "returned"
    /\ ~cancelPending
    /\ last_daily_sent' = IF ret > 0 THEN DateOf(now) ELSE last_daily_sent
    /\ WeeklyIf(now)
    /\ UNCHANGED <<authVars, expandVars, taskVars, gatherVars, clock, configVars, last_weekly_sent, now, cancelPending,
                   cancelled, upSince, dailyLog, nticks, nrestarts>>

\* run_daily_digest returned: _last_daily_sent = today, then the weekly if
DailyReturned ==
    /\ pc = "daily_run"
    /\ rpc = "returned"
    /\ ~cancelPending
    /\ last_daily_sent' = DateOf(now)
    /\ WeeklyIf(now)
    /\ UNCHANGED <<authVars, expandVars, taskVars, gatherVars, clock, configVars, last_weekly_sent, now, cancelPending,
                   cancelled, upSince, dailyLog, nticks, nrestarts>>

\* run_weekly_digest returned: _last_weekly_sent = today, back to the sleep
WeeklyReturned ==
    /\ pc = "weekly_run"
    /\ rpc = "returned"
    /\ ~cancelPending
    /\ last_weekly_sent' = DateOf(now)
    /\ pc' = "sleep"
    /\ RunnerIdle
    /\ UNCHANGED <<authVars, expandVars, taskVars, gatherVars, clock, configVars, last_daily_sent, now, cancelPending,
                   cancelled, upSince, dailyLog, weeklyLog, nticks, nrestarts>>

\* a loop that an exception of a run ends
RunRaised_Exits ==
    /\ pc \in {"daily_run", "weekly_run"}
    /\ rpc = "raised"
    /\ ~cancelPending
    /\ pc' = "exited"
    /\ RunnerIdle
    /\ UNCHANGED <<authVars, expandVars, taskVars, gatherVars, clock, configVars, last_daily_sent, last_weekly_sent, now,
                   cancelPending, cancelled, upSince, dailyLog, weeklyLog,
                   nticks, nrestarts>>

\* except Exception: the error is logged and the loop goes back to the sleep
RunRaised ==
    /\ pc \in {"daily_run", "weekly_run"}
    /\ rpc = "raised"
    /\ ~cancelPending
    /\ pc' = "sleep"
    /\ RunnerIdle
    /\ UNCHANGED <<authVars, expandVars, taskVars, gatherVars, clock, configVars, last_daily_sent, last_weekly_sent, now,
                   cancelPending, cancelled, upSince, dailyLog, weeklyLog,
                   nticks, nrestarts>>

\* lifespan, after the yield: task.cancel()
Cancel ==
    /\ pc \in {"sleep", "daily_run", "weekly_run"}
    /\ ~cancelled
    /\ cancelPending' = TRUE
    /\ cancelled' = TRUE
    /\ UNCHANGED <<authVars, expandVars, taskVars, gatherVars, clock, configVars, last_daily_sent, last_weekly_sent, pc,
                   now, rpc, rkind, idx, sent, outcomes, ret, upSince,
                   dailyLog, weeklyLog, nticks, nrestarts>>

\* where the loop goes when CancelledError reaches its except clause
CancelTarget_Continue == "sleep"

CancelTarget == "exited"

\* CancelledError is raised at the await the task is suspended in; it is no
\* Exception, so the runner's except clause lets it through
OnCancelled ==
    /\ cancelPending
    /\ cancelPending' = FALSE
    /\ pc' = CancelTarget
    /\ IF rpc = "idle" THEN RunnerIdle ELSE RunnerCancelled
    /\ UNCHANGED <<authVars, expandVars, taskVars, gatherVars, clock, configVars, last_daily_sent, last_weekly_sent, now,
                   cancelled, upSince, dailyLog, weeklyLog, nticks, nrestarts>>

\* the process stops (after the loop exited, or killed) and a new one starts
\* at once: the module globals are None again and lifespan creates a new loop
\* task
Restart ==
    /\ pc # "direct"
    /\ nrestarts < MaxRestarts
    /\ nrestarts' = nrestarts + 1
    /\ upSince' = clock
    /\ now' = clock
    /\ last_daily_sent' = NoDate
    /\ last_weekly_sent' = NoDate
    /\ pc' = "sleep"
    /\ RunnerIdle
    /\ cancelPending' = FALSE
    /\ cancelled' = FALSE
    /\ UNCHANGED <<authVars, expandVars, taskVars, gatherVars, clock, configVars, dailyLog, weeklyLog, nticks>>

-----------------------------------------------------------------------------
(* Calendar arithmetic of datetime, date and timedelta.  A datetime is       *)
(* [year, month, day, sod], sod being the second of the day; a date is       *)
(* [year, month, day].                                                       *)

IsLeap(y) == (y % 4 = 0) /\ ((y % 100 # 0) \/ (y % 400 = 0))

DaysInMonth(y, m) ==
    IF m = 2 THEN (IF IsLeap(y) THEN 29 ELSE 28)
    ELSE IF m \in {4, 6, 9, 11} THEN 30 ELSE 31

DaysBeforeYear(y) ==
    LET p == y - 1 IN p * 365 + p \div 4 - p \div 100 + p \div 400

DaysBeforeMonth(y, m) ==
    <<0, 31, 59, 90, 120, 151, 181, 212, 243, 273, 304, 334>>[m]
        + (IF m > 2 /\ IsLeap(y) THEN 1 ELSE 0)

\* date.toordinal(): 1 is 0001-01-01
ToOrdinal(d) == DaysBeforeYear(d.year) + DaysBeforeMonth(d.year, d.month) + d.day

\* date.fromordinal()
FromOrdinal(ordinal) ==
    LET n0 == ordinal - 1
        n400 == n0 \div 146097
        r400 == n0 % 146097
        n100 == r400 \div 36524
        r100 == r400 % 36524
        n4 == r100 \div 1461
        r4 == r100 % 1461
        n1 == r4 \div 365
        n == r4 % 365
        y == n400 * 400 + 1 + n100 * 100 + n4 * 4 + n1
        m0 == (n + 50) \div 32
        m == IF DaysBeforeMonth(y, m0) > n THEN m0 - 1 ELSE m0
    IN  IF n1 = 4 \/ n100 = 4
        THEN [year |-> y - 1, month |-> 12, day |-> 31]
        ELSE [year |-> y, month |-> m, day |-> n - DaysBeforeMonth(y, m) + 1]

\* datetime.weekday(): Monday is 0
Weekday(d) == (ToOrdinal(d) + 6) % 7

\* dt + timedelta(days = n)
AddDays(dt, n) ==
    LET d == FromOrdinal(ToOrdinal(dt) + n)
    IN  [year |-> d.year, month |-> d.month, day |-> d.day, sod |-> dt.sod]

\* dt + timedelta(seconds = secs)
AddSeconds(dt, secs) ==
    LET total == dt.sod + secs
    IN  [AddDays(dt, total \div SecondsPerDay) EXCEPT !.sod = total % SecondsPerDay]

\* (a - b).total_seconds()
DiffSeconds(a, b) ==
    (ToOrdinal(a) - ToOrdinal(b)) * SecondsPerDay + a.sod - b.sod

\* a <= b on datetimes
DtLE(a, b) ==
    \/ a.year < b.year
    \/ a.year = b.year /\ a.month < b.month
    \/ a.year = b.year /\ a.month = b.month /\ a.day < b.day
    \/ a.year = b.year /\ a.month = b.month /\ a.day = b.day /\ a.sod <= b.sod

DtLT(a, b) == DtLE(a, b) /\ a # b

DtMin(a, b) == IF DtLE(a, b) THEN a ELSE b

\* datetime.combine(d, time(23, 59, 59))
EndOfDay(d) ==
    [year |-> d.year, month |-> d.month, day |-> d.day,
     sod |-> 23 * 60 * 60 + 59 * 60 + 59]

-----------------------------------------------------------------------------
(* _advance_date *)

\* while candidate.weekday() != anchor_dow: candidate += timedelta(days=1)
RECURSIVE WalkToWeekday(_, _)
WalkToWeekday(candidate, dow) ==
    IF Weekday(candidate) = dow THEN candidate
    ELSE WalkToWeekday(AddDays(candidate, 1), dow)

\* the same day of the month, interval months ahead
AdvanceMonthly_SameDay(current, interval, anchor) ==
    LET m0 == current.month - 1 + interval
        year == current.year + m0 \div 12
        month == (m0 % 12) + 1
        last == DaysInMonth(year, month)
    IN  [year |-> year, month |-> month,
         day |-> IF anchor.day <= last THEN anchor.day ELSE last,
         sod |-> anchor.sod]

AdvanceMonthly(current, interval, anchor) ==
    LET anchor_week == (anchor.day + 6) \div 7
        anchor_dow == Weekday(anchor)
        m0 == current.month - 1 + interval
        year == current.year + m0 \div 12
        month == (m0 % 12) + 1
        first == [year |-> year, month |-> month, day |-> 1, sod |-> anchor.sod]
        candidate == AddDays(WalkToWeekday(first, anchor_dow), 7 * (anchor_week - 1))
        nm0 == month + interval
        next_year == year + (nm0 - 1) \div 12
        next_month == ((nm0 - 1) % 12) + 1
        again == [candidate EXCEPT !.year = next_year, !.month = next_month,
                                   !.day = 1]
    IN  IF candidate.month # month
        THEN AddDays(WalkToWeekday(again, anchor_dow), 7 * (anchor_week - 1))
        ELSE candidate

\* Feb 29 rolls over to Mar 1 in a year that is not a leap year
AdvanceYearly_ToMarch(current, interval) ==
    LET year == current.year + interval
    IN  IF current.day <= DaysInMonth(year, current.month)
        THEN [current EXCEPT !.year = year]
        ELSE [current EXCEPT !.year = year, !.month = 3, !.day = 1]

\* current.replace(year = ...) raises ValueError for Feb 29 of a non-leap year
AdvanceYearly(current, interval) ==
    LET year == current.year + interval
    IN  IF current.day <= DaysInMonth(year, current.month)
        THEN [current EXCEPT !.year = year]
        ELSE [current EXCEPT !.year = year, !.day = 28]

AdvanceDate(current, rule, interval, anchor) ==
    IF rule = "daily" THEN AddDays(current, interval)
    ELSE IF rule = "weekly" THEN AddDays(current, 7 * interval)
    ELSE IF rule = "monthly" THEN AdvanceMonthly(current, interval, anchor)
    ELSE IF rule = "yearly" THEN AdvanceYearly(current, interval)
    ELSE current

-----------------------------------------------------------------------------
(* expand_event_occurrences.  An event is [start_time, end_time,            *)
(* recurrence_rule, recurrence_interval, recurrence_end]; recurrence_rule   *)
(* "none" is an absent rule, recurrence_end is <<>> or <<date>>.  An        *)
(* occurrence is [ev, start, end]: ev is the event's index in events.       *)

\* a cap of one iteration more
MaxIterations_More == 1000 + 1

MaxIterations == 1000

\* the test of the non-recurring branch
OverlapsOnce_Strict(start, end, rs, re) == DtLT(rs, end) /\ DtLT(start, re)

OverlapsOnce(start, end, rs, re) == DtLE(rs, end) /\ DtLE(start, re)

\* the test of the while loop
Overlaps_StartOnly(start, end, rs, re) == DtLE(start, re)

Overlaps(start, end, rs, re) == DtLE(rs, end) /\ DtLE(start, re)

\* occ_end = cursor + duration
OccEnd_SecondsOnly(c, duration) == AddSeconds(c, duration % SecondsPerDay)

OccEnd(c, duration) == AddSeconds(c, duration)

Duration(e) == DiffSeconds(e.end_time, e.start_time)

EffectiveEnd(e) ==
    LET rec_end == IF e.recurrence_end # <<>>
                   THEN EndOfDay(e.recurrence_end[1])
                   ELSE range_end
    IN  DtMin(rec_end, range_end)

\* event.recurrence_interval or 1
IntervalOf(e) == IF e.recurrence_interval = 0 THEN 1 ELSE e.recurrence_interval

\* a sort by occurrence start that puts equal starts in reverse input order
SortByStart_TiesReversed(occs) ==
    LET n == Len(occs)
        rank == [i \in 1..n |->
                   Cardinality({ j \in 1..n :
                       \/ DtLT(occs[j].start, occs[i].start)
                       \/ occs[j].start = occs[i].start /\ j >= i })]
        \* rank with its values worked out once
        at == IF rank = rank THEN rank ELSE <<>>
    IN  [p \in 1..n |-> occs[CHOOSE i \in 1..n : at[i] = p]]

\* occurrences.sort(key=lambda x: x[1]): a stable sort by occurrence start
SortByStart(occs) ==
    LET n == Len(occs)
        rank == [i \in 1..n |->
                   Cardinality({ j \in 1..n :
                       \/ DtLT(occs[j].start, occs[i].start)
                       \/ occs[j].start = occs[i].start /\ j <= i })]
        \* rank with its values worked out once
        at == IF rank = rank THEN rank ELSE <<>>
    IN  [p \in 1..n |-> occs[CHOOSE i \in 1..n : at[i] = p]]

\* the head of the for loop body: a non-recurring event is handled whole, for
\* a recurring one the while loop is set up
ForEvent ==
    /\ epc = "for"
    /\ ev <= Len(events)
    /\ LET e == events[ev] IN
       IF e.recurrence_rule = "none"
       THEN /\ occurrences' =
                 IF OverlapsOnce(e.start_time, e.end_time, range_start, range_end)
                 THEN Append(occurrences,
                             [ev |-> ev, start |-> e.start_time, end |-> e.end_time])
                 ELSE occurrences
            /\ ev' = ev + 1
            /\ UNCHANGED <<epc, cursor, iterations>>
       ELSE /\ cursor' = e.start_time
            /\ iterations' = 0
            /\ epc' = "while"
            /\ UNCHANGED <<ev, occurrences>>
    /\ UNCHANGED <<authVars, schedVars, taskVars, gatherVars, events, range_start, range_end>>

\* one test of the while condition, and one iteration when it holds
WhileStep ==
    /\ epc = "while"
    /\ LET e == events[ev] IN
       IF DtLE(cursor, EffectiveEnd(e)) /\ iterations < MaxIterations
       THEN LET occ_end == OccEnd(cursor, Duration(e)) IN
            /\ iterations' = iterations + 1
            /\ occurrences' =
                 IF Overlaps(cursor, occ_end, range_start, range_end)
                 THEN Append(occurrences,
                             [ev |-> ev, start |-> cursor, end |-> occ_end])
                 ELSE occurrences
            /\ cursor' = AdvanceDate(cursor, e.recurrence_rule, IntervalOf(e),
                                     e.start_time)
            /\ UNCHANGED <<epc, ev>>
       ELSE /\ epc' = "for"
            /\ ev' = ev + 1
            /\ UNCHANGED <<cursor, iterations, occurrences>>
    /\ UNCHANGED <<authVars, schedVars, taskVars, gatherVars, events, range_start, range_end>>

\* the for loop is over: sort and return
ExpandReturn ==
    /\ epc = "for"
    /\ ev > Len(events)
    /\ occurrences' = SortByStart(occurrences)
    /\ epc' = "done"
    /\ UNCHANGED <<authVars, schedVars, taskVars, gatherVars, events, range_start, range_end, ev, cursor,
                   iterations>>

Dt(y, m, d, hour, minute) ==
    [year |-> y, month |-> m, day |-> d, sod |-> hour * 60 * 60 + minute * 60]

\* no expansion is going on
ExpandIdle ==
    /\ events = <<>>
    /\ range_start = Dt(2026, 3, 1, 0, 0)
    /\ range_end = Dt(2026, 3, 1, 0, 0)
    /\ epc = "idle"
    /\ ev = 1
    /\ cursor = Dt(2026, 3, 1, 0, 0)
    /\ iterations = 0
    /\ occurrences = <<>>

-----------------------------------------------------------------------------
(* update_task.  A task row is [status, due_date, completed_at,             *)
(* last_completed_at, recurrence_rule, recurrence_interval,                 *)
(* recurrence_end].  An optional value is <<>> when None and <<v>>          *)
(* otherwise; recurrence_rule "none" and status "none" are None.  The       *)
(* updates of a call give, for each field, <<>> when the request leaves it  *)
(* unset and <<v>> when it sets it to v.  A date is [year, month, day].     *)

MaxCalls == 3        \* update_task calls in one behaviour

DateLE(a, b) == ToOrdinal(a) <= ToOrdinal(b)

DateLT(a, b) == ToOrdinal(a) < ToOrdinal(b)

\* d + relativedelta(years = years, months = months): the day is cut down to
\* the last day of the month reached
AddMonths(d, years, months) ==
    LET m0 == d.month - 1 + months
        year == d.year + years + m0 \div 12
        month == (m0 % 12) + 1
        last == DaysInMonth(year, month)
    IN  [year |-> year, month |-> month,
         day |-> IF d.day <= last THEN d.day ELSE last]

\* a due date that is not advanced
AdvanceDueDate_Stay(current_due, rule, interval) == current_due

AdvanceDueDate(current_due, rule, interval) ==
    IF rule = "daily" THEN FromOrdinal(ToOrdinal(current_due) + interval)
    ELSE IF rule = "weekly" THEN FromOrdinal(ToOrdinal(current_due) + 7 * interval)
    ELSE IF rule = "monthly" THEN AddMonths(current_due, 0, interval)
    ELSE IF rule = "yearly" THEN AddMonths(current_due, interval, 0)
    ELSE current_due

\* for key, value in updates.items(): setattr(task, key, value)
Assigned(t, updates) ==
    [ status |-> IF updates.status # <<>> THEN updates.status[1] ELSE t.status,
      due_date |-> IF updates.due_date # <<>> THEN updates.due_date[1]
                   ELSE t.due_date,
      completed_at |-> t.completed_at,
      last_completed_at |-> t.last_completed_at,
      recurrence_rule |-> IF updates.recurrence_rule # <<>>
                          THEN updates.recurrence_rule[1] ELSE t.recurrence_rule,
      recurrence_interval |-> IF updates.recurrence_interval # <<>>
                              THEN updates.recurrence_interval[1]
                              ELSE t.recurrence_interval,
      recurrence_end |-> IF updates.recurrence_end # <<>>
                         THEN updates.recurrence_end[1] ELSE t.recurrence_end ]

\* a recurrence that is never exhausted
Exhausted_Never(t, next_due) == FALSE

\* a recurrence that goes on for a week past its end
Exhausted_Late(t, next_due) ==
    t.recurrence_end # <<>> /\ ToOrdinal(t.recurrence_end[1]) + 7 < ToOrdinal(next_due)

\* task.recurrence_end and next_due > task.recurrence_end
Exhausted(t, next_due) ==
    t.recurrence_end # <<>> /\ DateLT(t.recurrence_end[1], next_due)

\* a completion that always takes the present time
FirstCompletion_Always(t) == TRUE

\* not task.completed_at
FirstCompletion(t) == t.completed_at = <<>>

\* a status that never clears completed_at
LeavesDone_Never(updates) == FALSE

\* updates.get("status") and updates["status"] != "done"
LeavesDone(updates) ==
    updates.status # <<>> /\ updates.status[1] \notin {"none", "done"}

\* a completion handling that notes the time of every completion in
\* last_completed_at
Completion_Stamping(t, updates, at) ==
    IF updates.status = <<"done">>
    THEN IF t.recurrence_rule # "none" /\ t.due_date # <<>>
         THEN LET next_due == AdvanceDueDate(t.due_date[1], t.recurrence_rule,
                                             t.recurrence_interval[1])
              IN  IF Exhausted(t, next_due)
                  THEN [t EXCEPT !.completed_at = <<at>>,
                                 !.last_completed_at = <<at>>]
                  ELSE [t EXCEPT !.due_date = <<next_due>>,
                                 !.last_completed_at = <<at>>,
                                 !.status = "pending",
                                 !.completed_at = <<>>]
         ELSE [t EXCEPT !.completed_at = <<at>>, !.last_completed_at = <<at>>]
    ELSE IF LeavesDone(updates) THEN [t EXCEPT !.completed_at = <<>>]
         ELSE t

\* a completion handling that advances a recurring task and leaves it done
Completion_NoReset(t, updates, at) ==
    IF updates.status = <<"done">>
    THEN IF t.recurrence_rule # "none" /\ t.due_date # <<>>
         THEN LET next_due == AdvanceDueDate(t.due_date[1], t.recurrence_rule,
                                             t.recurrence_interval[1])
              IN  IF Exhausted(t, next_due)
                  THEN [t EXCEPT !.completed_at = <<at>>]
                  ELSE [t EXCEPT !.due_date = <<next_due>>,
                                 !.last_completed_at = <<at>>,
                                 !.completed_at = <<>>]
         ELSE IF FirstCompletion(t) THEN [t EXCEPT !.completed_at = <<at>>]
              ELSE t
    ELSE IF LeavesDone(updates) THEN [t EXCEPT !.completed_at = <<>>]
         ELSE t

\* the completion handling, on the task as the assignments left it
Completion(t, updates, at) ==
    IF updates.status = <<"done">>
    THEN IF t.recurrence_rule # "none" /\ t.due_date # <<>>
         THEN LET next_due == AdvanceDueDate(t.due_date[1], t.recurrence_rule,
                                             t.recurrence_interval[1])
              IN  IF Exhausted(t, next_due)
                  THEN [t EXCEPT !.completed_at = <<at>>]
                  ELSE [t EXCEPT !.due_date = <<next_due>>,
                                 !.last_completed_at = <<at>>,
                                 !.status = "pending",
                                 !.completed_at = <<>>]
         ELSE IF FirstCompletion(t) THEN [t EXCEPT !.completed_at = <<at>>]
              ELSE t
    ELSE IF LeavesDone(updates) THEN [t EXCEPT !.completed_at = <<>>]
         ELSE t

\* the call raises and nothing is committed: relativedelta raises TypeError
\* for an interval that is None, and the commit raises for a None in the
\* columns status and recurrence_interval, which are not nullable
Raises(t, updates) ==
    \/ /\ updates.status = <<"done">>
       /\ t.recurrence_rule # "none"
       /\ t.due_date # <<>>
       /\ t.recurrence_interval = <<>>
    \/ t.status = "none"
    \/ t.recurrence_interval = <<>>

UpdateTask(updates) ==
    /\ tnow <= MaxCalls
    /\ LET t == Assigned(task, updates)
           raised == Raises(t, updates)
       IN  /\ task' = IF raised THEN task ELSE Completion(t, updates, tnow)
           /\ tlast' = << [before |-> task, updates |-> updates, at |-> tnow,
                           raised |-> raised] >>
    /\ tnow' = tnow + 1
    /\ UNCHANGED <<authVars, schedVars, expandVars, gatherVars>>

\* a row as create_task stores it
CreatedTask(due, rule, interval, end) ==
    [ status |-> "pending", due_date |-> due, completed_at |-> <<>>,
      last_completed_at |-> <<>>, recurrence_rule |-> rule,
      recurrence_interval |-> <<interval>>, recurrence_end |-> end ]

\* update_task is not called
TaskIdle ==
    /\ task = CreatedTask(<<>>, "none", 1, <<>>)
    /\ tnow = 0
    /\ tlast = <<>>

-----------------------------------------------------------------------------
(* get_daily_digest_data, get_weekly_digest_data.  A household is [events,  *)
(* tasks]: the rows of its events and of its tasks, whose completed_at and  *)
(* last_completed_at are datetimes.  The expansion the gatherers call is    *)
(* the one modelled above: the gatherer waits until it is done.             *)

MaxHouseholds == 2   \* households of the user

AtMidnight(d) == [year |-> d.year, month |-> d.month, day |-> d.day, sod |-> 0]

\* range_start, range_end of a gatherer
GatherStart(kind) == AtMidnight(today)

GatherEnd(kind) ==
    IF kind = "daily" THEN EndOfDay(today)
    ELSE EndOfDay(FromOrdinal(ToOrdinal(today) + 7))

\* the events query
StoredEvent(e, rs, re) ==
    \/ e.recurrence_rule # "none"
    \/ DtLE(rs, e.end_time) /\ DtLE(e.start_time, re)

EventsQuery(h, rs, re) == SelectSeq(h.events, LAMBDA e : StoredEvent(e, rs, re))

\* the tasks query
DueInWindow(t, kind) ==
    /\ t.due_date # <<>>
    /\ IF kind = "daily" THEN t.due_date[1] = today
       ELSE /\ DateLE(today, t.due_date[1])
            /\ ToOrdinal(t.due_date[1]) <= ToOrdinal(today) + 7
    /\ t.status # "done"

TasksDue(h, kind) == SelectSeq(h.tasks, LAMBDA t : DueInWindow(t, kind))

\* the query of yesterday's completions
During(at, d) == at # <<>> /\ DtLE(AtMidnight(d), at[1]) /\ DtLE(at[1], EndOfDay(d))

CompletedYesterday(h) ==
    LET yesterday == FromOrdinal(ToOrdinal(today) - 1)
    IN  SelectSeq(h.tasks, LAMBDA t : \/ During(t.completed_at, yesterday)
                                      \/ During(t.last_completed_at, yesterday))

\* the sections of a household, as the gatherer computes them
Sections(h, kind, occs) ==
    IF kind = "daily"
    THEN [events |-> occs, tasks_due |-> TasksDue(h, kind),
          completed |-> CompletedYesterday(h)]
    ELSE [events |-> occs, tasks_due |-> TasksDue(h, kind)]

\* a gatherer that appends every household
Included_Always(sec) == TRUE

\* if today_occurrences or tasks_due or completed; if week_occurrences or
\* tasks_due
Included(sec) == \E k \in DOMAIN sec : sec[k] # <<>>

\* the head of the for loop body: the events query and the call of
\* expand_event_occurrences
GatherHousehold ==
    /\ gpc = "for"
    /\ hh <= Len(households)
    /\ events' = EventsQuery(households[hh], GatherStart(gkind), GatherEnd(gkind))
    /\ range_start' = GatherStart(gkind)
    /\ range_end' = GatherEnd(gkind)
    /\ epc' = "for"
    /\ ev' = 1
    /\ iterations' = 0
    /\ occurrences' = <<>>
    /\ gpc' = "expand"
    /\ UNCHANGED <<authVars, schedVars, taskVars, cursor, today, households, gkind, hh,
                   sections, digest_data>>

\* the expansion has returned: the task queries, and the entry
GatherSections ==
    /\ gpc = "expand"
    /\ epc = "done"
    /\ LET sec == Sections(households[hh], gkind, occurrences) IN
       /\ sections' = Append(sections, sec)
       /\ digest_data' =
            IF Included(sec)
            THEN Append(digest_data, [household |-> hh] @@ sec)
            ELSE digest_data
    /\ hh' = hh + 1
    /\ gpc' = "for"
    /\ epc' = "idle"
    /\ UNCHANGED <<authVars, schedVars, taskVars, events, range_start, range_end, ev,
                   cursor, iterations, occurrences, today, households, gkind>>

\* return digest_data
GatherReturn ==
    /\ gpc = "for"
    /\ hh > Len(households)
    /\ gpc' = "done"
    /\ UNCHANGED <<authVars, schedVars, taskVars, expandVars, today, households, gkind,
                   hh, sections, digest_data>>

\* no gatherer is running
GatherIdle ==
    /\ today = [year |-> 2026, month |-> 3, day |-> 1]
    /\ households = <<>>
    /\ gkind = "none"
    /\ gpc = "idle"
    /\ hh = 1
    /\ sections = <<>>
    /\ digest_data = <<>>

-----------------------------------------------------------------------------
(* decode_token and _get_jwks.  Each caller is a request whose dependency   *)
(* decode_token runs as a coroutine of the one event loop: a step is the    *)
(* code between two awaits.  A key set is "keys" when it holds the key that *)
(* signed the valid tokens, "other" when it holds other keys, and "empty"   *)
(* when it is the empty object, which is the module's initial cache.        *)

MaxCallers == 2     \* concurrent requests

MaxAuthCalls == 3   \* decode_token calls in all

MaxAuthTicks == 2   \* times that time passes

JWKS_CACHE_TTL == 86400

\* the time at which the process starts, and the time that passes at once
AuthStart == 2 * JWKS_CACHE_TTL

AuthStep == JWKS_CACHE_TTL \div 2

Callers == 1 .. MaxCallers

\* a cache that is dropped after half the time
CacheValid_HalfTTL(t) ==
    jwks_cache # "empty" /\ t - jwks_cache_time < JWKS_CACHE_TTL \div 2

\* _jwks_cache and (now - _jwks_cache_time) < _JWKS_CACHE_TTL
CacheValid(t) == jwks_cache # "empty" /\ t - jwks_cache_time < JWKS_CACHE_TTL

\* jwt.decode(token, jwks, ...) inside the try: the payload, or a JWTError
\* that becomes the HTTPException 401
Decode(cr, jwks) == IF cr = "valid" /\ jwks = "keys" THEN "payload" ELSE "401"

\* how decode_token ends when the fetch ends with outcome o: httpx.HTTPError
\* and KeyError are caught and become the 401, the ValueError of a body that
\* is not JSON is not caught
Failure(o) == IF o = "not_json" THEN "raised" ELSE "401"

\* the body of async with _jwks_lock, entered by caller c with credentials
\* cr: a valid cache is returned and decoded with, otherwise the fetch
\* begins and the lock is kept over its awaits
Locked(c, cr) ==
    IF CacheValid(atime)
    THEN /\ result' = [result EXCEPT ![c] = Decode(cr, jwks_cache)]
         /\ apc' = [apc EXCEPT ![c] = "idle"]
         /\ UNCHANGED <<jwks_lock, jnow>>
    ELSE /\ jwks_lock' = c
         /\ jnow' = atime
         /\ apc' = [apc EXCEPT ![c] = "discovery"]
         /\ result' = [result EXCEPT ![c] = "pending"]

\* decode_token is called: without credentials it raises the 401 at once;
\* with credentials it goes to the lock of _get_jwks, which it takes at once
\* when the lock is free and nobody waits for it, and waits for otherwise
DecodeToken(c, cr) ==
    /\ apc[c] = "idle"
    /\ ncalls < MaxAuthCalls
    /\ ncalls' = ncalls + 1
    /\ acaller' = c
    /\ credentials' = [credentials EXCEPT ![c] = cr]
    /\ IF cr = "none"
       THEN /\ result' = [result EXCEPT ![c] = "401"]
            /\ UNCHANGED <<apc, jwks_lock, jnow>>
       ELSE IF jwks_lock # 0 \/ \E d \in Callers : apc[d] = "lock"
       THEN /\ result' = [result EXCEPT ![c] = "pending"]
            /\ apc' = [apc EXCEPT ![c] = "lock"]
            /\ UNCHANGED <<jwks_lock, jnow>>
       ELSE Locked(c, cr)
    /\ UNCHANGED <<schedVars, expandVars, taskVars, gatherVars, atime,
                   jwks_cache, jwks_cache_time, flast, fstored>>

\* a caller that waited gets the lock
GetJwks(c) ==
    /\ apc[c] = "lock"
    /\ jwks_lock = 0
    /\ Locked(c, credentials[c])
    /\ UNCHANGED <<schedVars, expandVars, taskVars, gatherVars, atime,
                   jwks_cache, jwks_cache_time, credentials, flast, fstored,
                   ncalls, acaller>>

DiscoveryOutcomes == { "ok", "http_error", "no_jwks_uri", "not_json" }

\* the discovery document has come, or the request for it has failed
Discovery(c, o) ==
    /\ apc[c] = "discovery"
    /\ IF o = "ok"
       THEN /\ apc' = [apc EXCEPT ![c] = "keys"]
            /\ UNCHANGED <<jwks_lock, jnow, result, flast>>
       ELSE /\ apc' = [apc EXCEPT ![c] = "idle"]
            /\ jwks_lock' = 0
            /\ jnow' = 0
            /\ result' = [result EXCEPT ![c] = Failure(o)]
            /\ flast' = o
    /\ UNCHANGED <<schedVars, expandVars, taskVars, gatherVars, atime,
                   jwks_cache, jwks_cache_time, credentials, fstored, ncalls,
                   acaller>>

KeySets == { "keys", "other", "empty" }

KeysOutcomes == KeySets \cup { "http_error", "not_json" }

\* the key set has come and is stored with the time taken before the fetch,
\* or the request for it has failed
Keys(c, o) ==
    /\ apc[c] = "keys"
    /\ apc' = [apc EXCEPT ![c] = "idle"]
    /\ jwks_lock' = 0
    /\ jnow' = 0
    /\ flast' = o
    /\ IF o \in KeySets
       THEN /\ jwks_cache' = o
            /\ jwks_cache_time' = jnow
            /\ fstored' = <<[at |-> jnow, keys |-> o]>>
            /\ result' = [result EXCEPT ![c] = Decode(credentials[c], o)]
       ELSE /\ result' = [result EXCEPT ![c] = Failure(o)]
            /\ UNCHANGED <<jwks_cache, jwks_cache_time, fstored>>
    /\ UNCHANGED <<schedVars, expandVars, taskVars, gatherVars, atime,
                   credentials, ncalls, acaller>>

\* time passes
AuthTime ==
    /\ atime < AuthStart + MaxAuthTicks * AuthStep
    /\ atime' = atime + AuthStep
    /\ UNCHANGED <<schedVars, expandVars, taskVars, gatherVars, jwks_cache,
                   jwks_cache_time, jwks_lock, apc, credentials, jnow, result,
                   flast, fstored, ncalls, acaller>>

\* the module as imported, and no call made
AuthIdle ==
    /\ atime = AuthStart
    /\ jwks_cache = "empty"
    /\ jwks_cache_time = 0
    /\ jwks_lock = 0
    /\ apc = [c \in Callers |-> "idle"]
    /\ credentials = [c \in Callers |-> "none"]
    /\ jnow = 0
    /\ result = [c \in Callers |-> "none"]
    /\ flast = "none"
    /\ fstored = <<>>
    /\ ncalls = 0
    /\ acaller = 0

-----------------------------------------------------------------------------
(* The scheduler's specification *)

DailyHours == {6, 18}

WeeklyHours == {18}

\* the process is started shortly before a configured hour of a Saturday or
\* a Sunday
StartDays == {5, 6}

StartOffsets == {1, 61, 121}

StartClocks ==
    { d * SecondsPerDay + h * 60 * 60 - off :
        d \in StartDays, h \in DailyHours \cup WeeklyHours, off \in StartOffsets }

Init ==
    /\ smtp_host \in BOOLEAN
    /\ digest_daily_hour \in DailyHours
    /\ digest_weekly_hour \in WeeklyHours
    /\ dailyUsers \in 0..MaxUsers
    /\ weeklyUsers \in 0..MaxUsers
    /\ clock \in StartClocks
    /\ now = clock
    /\ upSince = clock
    /\ last_daily_sent = NoDate
    /\ last_weekly_sent = NoDate
    /\ pc = "sleep"
    /\ rpc = "idle"
    /\ rkind = "none"
    /\ idx = 0
    /\ sent = 0
    /\ outcomes = <<>>
    /\ ret = 0
    /\ cancelPending = FALSE
    /\ cancelled = FALSE
    /\ dailyLog = <<>>
    /\ weeklyLog = <<>>
    /\ nticks = 0
    /\ nrestarts = 0
    /\ AuthIdle
    /\ ExpandIdle
    /\ TaskIdle
    /\ GatherIdle

Next ==
    \/ \E lag \in 0..MaxLagSecs : Tick(lag)
    \/ QueryUsers
    \/ QueryFails
    \/ \E o \in AttemptOutcomes, secs \in 0..MaxStepSecs : UserAttempt(o, secs)
    \/ RunReturn
    \/ DailyReturned
    \/ WeeklyReturned
    \/ RunRaised
    \/ Cancel
    \/ OnCancelled
    \/ Restart

Spec == Init /\ [][Next]_vars

FairSpec == Spec /\ WF_vars(OnCancelled)

-----------------------------------------------------------------------------
(* The runners called on their own, on any settings and any set of users *)

DirectCall(kind) ==
    /\ pc = "direct"
    /\ rpc = "idle"
    /\ StartRun(kind)
    /\ UNCHANGED <<authVars, expandVars, taskVars, gatherVars, clock, configVars, loopVars>>

\* the caller has the result, or the exception
DirectDone ==
    /\ pc = "direct"
    /\ rpc \in {"returned", "raised"}
    /\ RunnerIdle
    /\ UNCHANGED <<authVars, expandVars, taskVars, gatherVars, clock, configVars, loopVars>>

InitRun ==
    /\ smtp_host \in BOOLEAN
    /\ digest_daily_hour \in DailyHours
    /\ digest_weekly_hour \in WeeklyHours
    /\ dailyUsers \in 0..MaxRunUsers
    /\ weeklyUsers \in 0..MaxRunUsers
    /\ clock = 0
    /\ now = 0
    /\ upSince = 0
    /\ last_daily_sent = NoDate
    /\ last_weekly_sent = NoDate
    /\ pc = "direct"
    /\ rpc = "idle"
    /\ rkind = "none"
    /\ idx = 0
    /\ sent = 0
    /\ outcomes = <<>>
    /\ ret = 0
    /\ cancelPending = FALSE
    /\ cancelled = FALSE
    /\ dailyLog = <<>>
    /\ weeklyLog = <<>>
    /\ nticks = 0
    /\ nrestarts = 0
    /\ AuthIdle
    /\ ExpandIdle
    /\ TaskIdle
    /\ GatherIdle

NextRun ==
    \/ \E kind \in {"daily", "weekly"} : DirectCall(kind)
    \/ QueryUsers
    \/ QueryFails
    \/ \E o \in AttemptOutcomes : UserAttempt(o, 0)
    \/ RunReturn
    \/ DirectDone

SpecRun == InitRun /\ [][NextRun]_vars

-----------------------------------------------------------------------------
(* expand_event_occurrences applied to bounded sets of events and windows *)

SchedulerIdle ==
    /\ smtp_host = FALSE
    /\ digest_daily_hour = 6
    /\ digest_weekly_hour = 18
    /\ dailyUsers = 0
    /\ weeklyUsers = 0
    /\ clock = 0
    /\ now = 0
    /\ upSince = 0
    /\ last_daily_sent = NoDate
    /\ last_weekly_sent = NoDate
    /\ pc = "direct"
    /\ rpc = "idle"
    /\ rkind = "none"
    /\ idx = 0
    /\ sent = 0
    /\ outcomes = <<>>
    /\ ret = 0
    /\ cancelPending = FALSE
    /\ cancelled = FALSE
    /\ dailyLog = <<>>
    /\ weeklyLog = <<>>
    /\ nticks = 0
    /\ nrestarts = 0

\* a first Tuesday, a leap day, a fifth Friday, an evening before the first
\* window, and a start more than 1000 days before the windows
Starts ==
    { Dt(2026, 3, 3, 9, 0), Dt(2024, 2, 29, 10, 0), Dt(2026, 1, 30, 18, 0),
      Dt(2026, 2, 28, 22, 0), Dt(2023, 5, 1, 9, 0) }

DurationsSecs == { 2 * 60 * 60, 49 * 60 * 60 }

Rules == { "daily", "weekly", "monthly", "yearly" }

RecurrenceEnds ==
    { <<>>, <<[year |-> 2026, month |-> 3, day |-> 1]>>,
      <<[year |-> 2026, month |-> 4, day |-> 7]>> }

\* a day, the eight days of the weekly digest, and a month
Windows ==
    { <<Dt(2026, 3, 1, 0, 0), EndOfDay([year |-> 2026, month |-> 3, day |-> 1])>>,
      <<Dt(2026, 4, 1, 0, 0), EndOfDay([year |-> 2026, month |-> 4, day |-> 8])>>,
      <<Dt(2026, 4, 1, 0, 0), EndOfDay([year |-> 2026, month |-> 4, day |-> 30])>> }

Event(s, d, r, i, re) ==
    [start_time |-> s, end_time |-> AddSeconds(s, d), recurrence_rule |-> r,
     recurrence_interval |-> i, recurrence_end |-> re]

OneShotEvents == { Event(s, d, "none", 1, <<>>) : s \in Starts, d \in DurationsSecs }

RecurringEvents ==
    UNION { { Event(s, d, r, i, re) : s \in Starts, d \in DurationsSecs, r \in Rules } :
              i \in 1..MaxInterval, re \in RecurrenceEnds }

PairEvents ==
    { Event(s, 2 * 60 * 60, r, 1, <<>>) :
        s \in { Dt(2026, 3, 3, 9, 0), Dt(2026, 2, 28, 22, 0) },
        r \in { "none", "weekly" } }

EventLists ==
    { <<e>> : e \in OneShotEvents \cup RecurringEvents }
        \cup { <<a, b>> : a \in PairEvents, b \in PairEvents }

InitExpand ==
    /\ AuthIdle
    /\ SchedulerIdle
    /\ TaskIdle
    /\ GatherIdle
    /\ events \in EventLists
    /\ \E w \in Windows : range_start = w[1] /\ range_end = w[2]
    /\ epc = "for"
    /\ ev = 1
    /\ cursor = range_start
    /\ iterations = 0
    /\ occurrences = <<>>

NextExpand ==
    \/ ForEvent
    \/ WhileStep
    \/ ExpandReturn

SpecExpand == InitExpand /\ [][NextExpand]_vars

-----------------------------------------------------------------------------
(* expand_event_occurrences applied to one monthly or yearly event over a    *)
(* window of years that starts before the event: the cursor then runs       *)
(* through the series from its anchor, and every cursor is an occurrence    *)

\* a first, a second, a third and a fourth weekday of the month, a seventh
\* day in December, a leap day that is a fifth Thursday, a fifth Friday, and
\* a day of July
SeriesAnchors ==
    { Dt(2026, 3, 3, 9, 0), Dt(2024, 1, 9, 8, 30), Dt(2024, 3, 21, 20, 0),
      Dt(2024, 1, 28, 0, 0), Dt(2024, 12, 7, 12, 0), Dt(2024, 2, 29, 10, 0),
      Dt(2026, 1, 30, 18, 0), Dt(2024, 7, 15, 7, 45) }

SeriesIntervals == 1 .. (MaxInterval + 2)

SeriesEvents ==
    { Event(s, 60 * 60, r, i, <<>>) :
        s \in SeriesAnchors, r \in {"monthly", "yearly"}, i \in SeriesIntervals }

SeriesWindows ==
    { <<Dt(2024, 1, 1, 0, 0),
        EndOfDay([year |-> 2024 + SeriesYears - 1, month |-> 12, day |-> 31])>>,
      <<Dt(2026, 4, 1, 0, 0), EndOfDay([year |-> 2026, month |-> 4, day |-> 30])>> }

InitSeries ==
    /\ AuthIdle
    /\ SchedulerIdle
    /\ TaskIdle
    /\ GatherIdle
    /\ events \in { <<e>> : e \in SeriesEvents }
    /\ \E w \in SeriesWindows : range_start = w[1] /\ range_end = w[2]
    /\ epc = "for"
    /\ ev = 1
    /\ cursor = range_start
    /\ iterations = 0
    /\ occurrences = <<>>

SpecSeries == InitSeries /\ [][NextExpand]_vars

-----------------------------------------------------------------------------
(* expand_event_occurrences applied to series that reach the cap of the     *)
(* while loop: a rule _advance_date does not know (the column is free text) *)
(* leaves the cursor where it is, and a daily series that began a thousand  *)
(* days before the window uses the iterations up before it gets there       *)

CapEventLists ==
    { <<Event(Dt(2026, 3, 1, 10, 0), 2 * 60 * 60, "hourly", 1, <<>>),
        Event(Dt(2026, 3, 1, 8, 0), 60 * 60, "none", 1, <<>>)>>,
      <<Event(Dt(2023, 5, 1, 9, 0), 2 * 60 * 60, "daily", 1, <<>>)>>,
      <<Event(Dt(2026, 3, 1, 10, 0), 2 * 60 * 60, "daily", 1, <<>>)>> }

InitCap ==
    /\ AuthIdle
    /\ SchedulerIdle
    /\ TaskIdle
    /\ GatherIdle
    /\ events \in CapEventLists
    /\ \E w \in Windows : range_start = w[1] /\ range_end = w[2]
    /\ epc = "for"
    /\ ev = 1
    /\ cursor = range_start
    /\ iterations = 0
    /\ occurrences = <<>>

SpecCap == InitCap /\ [][NextExpand]_vars

-----------------------------------------------------------------------------
(* update_task applied to a task as create_task stored it, call after call *)

Date(y, m, d) == [year |-> y, month |-> m, day |-> d]

\* a Wednesday, a last day of January, and a leap day
TaskDueDates == { Date(2026, 2, 25), Date(2026, 1, 31), Date(2024, 2, 29) }

\* a Sunday before the next Wednesday, and that Wednesday
TaskEnds == { Date(2026, 3, 1), Date(2026, 3, 4) }

CreatedTasks ==
    { CreatedTask(due, rule, interval, end) :
        due \in {<<>>} \cup { <<d>> : d \in TaskDueDates },
        rule \in {"none"} \cup Rules,
        interval \in 1..MaxInterval,
        end \in {<<>>} \cup { <<d>> : d \in TaskEnds } }

\* the fields besides status that a request sets: none, or one of them, to
\* None or to a value
Unset == [due_date |-> <<>>, recurrence_rule |-> <<>>,
          recurrence_interval |-> <<>>, recurrence_end |-> <<>>]

FieldUpdates ==
    {Unset}
        \cup { [Unset EXCEPT !.due_date = <<v>>] :
                 v \in { <<>>, <<Date(2026, 2, 25)>> } }
        \cup { [Unset EXCEPT !.recurrence_rule = <<v>>] : v \in { "none", "weekly" } }
        \cup { [Unset EXCEPT !.recurrence_interval = <<v>>] : v \in { <<>>, <<2>> } }
        \cup { [Unset EXCEPT !.recurrence_end = <<v>>] :
                 v \in { <<>>, <<Date(2026, 3, 1)>> } }

StatusUpdates == { <<>>, <<"none">>, <<"pending">>, <<"in_progress">>, <<"done">> }

TaskUpdates == { [status |-> st] @@ f : st \in StatusUpdates, f \in FieldUpdates }

InitTask ==
    /\ AuthIdle
    /\ SchedulerIdle
    /\ ExpandIdle
    /\ GatherIdle
    /\ task \in CreatedTasks
    /\ tnow = 1
    /\ tlast = <<>>

NextTask == \E updates \in TaskUpdates : UpdateTask(updates)

SpecTask == InitTask /\ [][NextTask]_vars

-----------------------------------------------------------------------------
(* The gatherers applied to the households of a user, today being Sunday    *)
(* 2026-03-01                                                               *)

\* no event; an event of today; an event of next Thursday; a weekly series
\* that started a week ago, with an event of January
HouseholdEvents ==
    { <<>>,
      <<Event(Dt(2026, 3, 1, 10, 0), 60 * 60, "none", 1, <<>>)>>,
      <<Event(Dt(2026, 3, 5, 20, 0), 60 * 60, "none", 1, <<>>)>>,
      <<Event(Dt(2026, 2, 22, 9, 0), 60 * 60, "weekly", 1, <<>>),
        Event(Dt(2026, 1, 10, 9, 0), 60 * 60, "none", 1, <<>>)>> }

StoredTask(status, due, completed, last, rule) ==
    [ status |-> status, due_date |-> due, completed_at |-> completed,
      last_completed_at |-> last, recurrence_rule |-> rule,
      recurrence_interval |-> <<1>>, recurrence_end |-> <<>> ]

\* no task; a task due today and one without a due date; a task done
\* yesterday; a weekly task completed yesterday and due again in a week
HouseholdTasks ==
    { <<>>,
      <<StoredTask("pending", <<Date(2026, 3, 1)>>, <<>>, <<>>, "none"),
        StoredTask("in_progress", <<>>, <<>>, <<>>, "none")>>,
      <<StoredTask("done", <<Date(2026, 3, 1)>>, <<Dt(2026, 2, 28, 15, 0)>>,
                   <<>>, "none")>>,
      <<StoredTask("pending", <<Date(2026, 3, 8)>>, <<>>,
                   <<Dt(2026, 2, 28, 23, 30)>>, "weekly")>> }

Households ==
    { [events |-> e, tasks |-> t] : e \in HouseholdEvents, t \in HouseholdTasks }

RECURSIVE ListsOf(_, _)
ListsOf(S, n) ==
    IF n = 0 THEN { <<>> }
    ELSE LET shorter == ListsOf(S, n - 1)
         IN  shorter \cup { Append(l, x) : l \in { k \in shorter : Len(k) = n - 1 },
                                           x \in S }

InitGather ==
    /\ AuthIdle
    /\ SchedulerIdle
    /\ ExpandIdle
    /\ TaskIdle
    /\ today = Date(2026, 3, 1)
    /\ households \in ListsOf(Households, MaxHouseholds)
    /\ gkind \in {"daily", "weekly"}
    /\ gpc = "for"
    /\ hh = 1
    /\ sections = <<>>
    /\ digest_data = <<>>

NextGather ==
    \/ GatherHousehold
    \/ ForEvent
    \/ WhileStep
    \/ ExpandReturn
    \/ GatherSections
    \/ GatherReturn

SpecGather == InitGather /\ [][NextGather]_vars

-----------------------------------------------------------------------------
(* decode_token called by concurrent requests while time passes *)

Credentials == { "none", "valid", "invalid" }

InitAuth ==
    /\ SchedulerIdle
    /\ ExpandIdle
    /\ TaskIdle
    /\ GatherIdle
    /\ AuthIdle

NextAuth ==
    \/ \E c \in Callers, cr \in Credentials : DecodeToken(c, cr)
    \/ \E c \in Callers : GetJwks(c)
    \/ \E c \in Callers, o \in DiscoveryOutcomes : Discovery(c, o)
    \/ \E c \in Callers, o \in KeysOutcomes : Keys(c, o)
    \/ AuthTime

SpecAuth == InitAuth /\ [][NextAuth]_vars

-----------------------------------------------------------------------------
(* Claims about the scheduler *)

NoDuplicates(log) ==
    \A i, j \in DOMAIN log : i < j => log[i] # log[j]

Dates(log) == { log[i] : i \in DOMAIN log }

\* 00:00 of the configured daily hour on date d
DailyBoundary(d) == d * SecondsPerDay + digest_daily_hour * 60 * 60

\* C1: within one process lifetime, once a daily run has completed on day D
\* (last_daily_sent = D), no tick whose local date is D starts a daily run.
C1_NoSecondDailyRunThatDay ==
    [][ (nticks' = nticks + 1 /\ last_daily_sent = DateOf(now'))
            => dailyLog' = dailyLog ]_vars

\* a tick was evaluated later on the day of a completed daily run, in the
\* configured hour
C1_Witness ==
    /\ last_daily_sent = DateOf(now)
    /\ HourOf(now) = digest_daily_hour
    /\ MinuteOf(now) # 0
    /\ pc = "sleep"

\* C2: across process restarts no two daily runs start on the same date and
\* no two weekly runs start on the same Sunday.
C2_AtMostOncePerDateAcrossRestarts ==
    /\ NoDuplicates(dailyLog)
    /\ NoDuplicates(weeklyLog)

\* the process was restarted within the minute in which a daily run had
\* started, and the new loop has evaluated a tick on that date
C2_Witness ==
    /\ nrestarts > 0
    /\ dailyLog # <<>>
    /\ dailyLog[Len(dailyLog)] = DateOf(upSince)
    /\ HourOf(upSince) = digest_daily_hour
    /\ MinuteOf(upSince) = 0
    /\ now > upSince
    /\ DateOf(now) = DateOf(upSince)

\* C3: on every day on which the loop runs through the configured daily hour
\* with mail enabled, a daily run is started on that day.
C3_DailyBoundaryNeverSkipped ==
    ( /\ smtp_host
      /\ pc = "sleep"
      /\ upSince + SleepSeconds < DailyBoundary(DateOf(now))
      /\ now >= DailyBoundary(DateOf(now)) + 60 )
        => DateOf(now) \in Dates(dailyLog)

\* C4: a weekly run starts only on a tick of a Sunday, in the weekly hour, at
\* minute 0, with last_weekly_sent not today and mail enabled; at most one
\* starts per Sunday; the daily run leaves last_weekly_sent alone and the
\* weekly run leaves last_daily_sent alone.
C4_WeeklyGateAndOwnDedupState ==
    /\ [][ Len(weeklyLog') > Len(weeklyLog)
             => /\ WeekdayOf(now') = 6
                /\ HourOf(now') = digest_weekly_hour
                /\ MinuteOf(now') = 0
                /\ last_weekly_sent # DateOf(now')
                /\ smtp_host ]_vars
    /\ [](NoDuplicates(weeklyLog) /\ \A d \in Dates(weeklyLog) : d % 7 = 6)
    /\ [][ (nrestarts' = nrestarts /\ pc = "daily_run")
             => last_weekly_sent' = last_weekly_sent ]_vars
    /\ [][ (nrestarts' = nrestarts /\ pc = "weekly_run")
             => last_daily_sent' = last_daily_sent ]_vars

\* a weekly run has fired and completed after a daily run of the same tick
C4_Witness ==
    /\ weeklyLog # <<>>
    /\ last_weekly_sent = DateOf(now)
    /\ last_daily_sent = DateOf(now)
    /\ pc = "sleep"

\* C5: a run makes an attempt for every opted-in user whether or not earlier
\* attempts raised, does not raise because of a per-user failure, and returns
\* the number of attempts that completed without raising.
C5_EveryUserAttemptedFailuresIsolated ==
    /\ rpc = "returned" =>
          /\ Len(outcomes) = OptedIn(rkind)
          /\ ret = Cardinality({ i \in DOMAIN outcomes : outcomes[i] = "ok" })
    /\ rpc = "raised" => outcomes = <<>>

\* a run returned after the first user's attempt raised and the second's
\* completed
C5_Witness ==
    /\ rpc = "returned"
    /\ Len(outcomes) = 2
    /\ outcomes[1] = "gather_raised"
    /\ outcomes[2] = "ok"
    /\ ret = 1

\* C6: once the task is cancelled, in its sleep or in a digest run, the loop
\* exits at once, without the clock advancing, and no run starts afterwards.
C6_CancelExitsPromptly ==
    /\ []((cancelled /\ ~cancelPending) => pc = "exited")
    /\ [][ (cancelPending /\ nrestarts' = nrestarts)
             => (pc' = "exited" /\ clock' = clock) ]_vars
    /\ [][ (cancelled /\ nrestarts' = nrestarts)
             => (dailyLog' = dailyLog /\ weeklyLog' = weeklyLog) ]_vars
    /\ (cancelPending ~> ~cancelPending)

\* the loop has exited after a cancellation that arrived inside a digest run
C6_Witness ==
    /\ pc = "exited"
    /\ cancelled
    /\ rpc = "cancelled"
    /\ idx > 0

-----------------------------------------------------------------------------
(* Claims about expand_event_occurrences *)

OccurrencesOf(i) == { k \in DOMAIN occurrences : occurrences[k].ev = i }

Recurring(e) == e.recurrence_rule \in Rules /\ e.recurrence_interval >= 1

\* C7: every occurrence returned overlaps the window: its end is not before
\* window_start and its start is not after window_end.
C7_OccurrencesOverlapWindow ==
    \A k \in DOMAIN occurrences :
        /\ DtLE(range_start, occurrences[k].end)
        /\ DtLE(occurrences[k].start, range_end)

\* an expansion returned occurrences of a series that also has elements
\* before the window
C7_Witness ==
    /\ epc = "done"
    /\ Len(occurrences) >= 2
    /\ iterations > Len(occurrences)
    /\ DtLT(AddSeconds(events[1].start_time, Duration(events[1])), range_start)

\* whether C8 requires the series element c of events[i] in the result and
\* it is not there
MissingAt(i, c) ==
    LET e == events[i]
        c_end == AddSeconds(c, Duration(e))
        required ==
            /\ e.recurrence_end # <<>> => DtLE(c, EndOfDay(e.recurrence_end[1]))
            /\ DtLE(range_start, c_end)
            /\ DtLE(c, range_end)
        present == \E k \in OccurrencesOf(i) : occurrences[k].start = c
    IN  IF required /\ ~present THEN {c} ELSE {}

\* A walk along the series start, advance(start), ... of events[i], from c,
\* up to the window's end: n units of the given level, a unit of level 0
\* being one element and a unit of a higher level SeriesBlock units of the
\* level below.  The result is the set of missing elements and the element
\* the walk stopped at.
RECURSIVE SeriesWalk(_, _, _, _)
SeriesWalk(i, c, level, n) ==
    IF n = 0 \/ ~DtLE(c, range_end) THEN [missing |-> {}, next |-> c]
    ELSE LET e == events[i]
             unit == IF level = 0
                     THEN [missing |-> MissingAt(i, c),
                           next |-> AdvanceDate(c, e.recurrence_rule,
                                                IntervalOf(e), e.start_time)]
                     ELSE SeriesWalk(i, c, level - 1, SeriesBlock)
         IN  CHOOSE r \in
                 { [missing |-> u.missing \cup rest.missing, next |-> rest.next] :
                     u \in {unit},
                     rest \in { SeriesWalk(i, u.next, level, n - 1) : u \in {unit} } } :
                 TRUE

\* C8: for a recurring definition every element of the series start,
\* advance(start), ... that does not start after the end of day of
\* recurrence.end and overlaps the window is in the result, however far
\* before the window the definition starts.
C8_EveryOccurrenceInWindowReturned ==
    epc = "done" =>
        \A i \in DOMAIN events :
            Recurring(events[i]) =>
                SeriesWalk(i, events[i].start_time, SeriesLevels, SeriesBlock).missing = {}

\* C9: a non-recurring definition yields exactly the occurrence
\* (definition.start, definition.end) if definition.end >= window_start and
\* definition.start <= window_end, and none otherwise; never more than one.
C9_OneShotAtMostOnce ==
    epc = "done" =>
        \A i \in DOMAIN events :
            events[i].recurrence_rule = "none" =>
                IF /\ DtLE(range_start, events[i].end_time)
                   /\ DtLE(events[i].start_time, range_end)
                THEN /\ Cardinality(OccurrencesOf(i)) = 1
                     /\ \A k \in OccurrencesOf(i) :
                            /\ occurrences[k].start = events[i].start_time
                            /\ occurrences[k].end = events[i].end_time
                ELSE OccurrencesOf(i) = {}

\* a one-shot event that ends at the very start of the window was returned
C9_Witness ==
    /\ epc = "done"
    /\ Len(events) = 1
    /\ events[1].recurrence_rule = "none"
    /\ events[1].end_time = range_start
    /\ Len(occurrences) = 1

\* C10: every occurrence is as long as its definition:
\* occurrence_end - occurrence_start = definition.end - definition.start.
C10_DurationPreserved ==
    \A k \in DOMAIN occurrences :
        DiffSeconds(occurrences[k].end, occurrences[k].start)
            = DiffSeconds(events[occurrences[k].ev].end_time,
                          events[occurrences[k].ev].start_time)

\* an occurrence of a monthly or yearly series, later than the definition's
\* own and longer than a day, was returned
C10_Witness ==
    /\ epc = "done"
    /\ \E k \in DOMAIN occurrences :
          /\ events[occurrences[k].ev].recurrence_rule \in {"monthly", "yearly"}
          /\ occurrences[k].start # events[occurrences[k].ev].start_time
          /\ Duration(events[occurrences[k].ev]) > SecondsPerDay

\* C11: the returned list is ordered by occurrence start ascending, and two
\* occurrences with equal starts appear in the order of their definitions in
\* the input list.
C11_SortedByStartStable ==
    epc = "done" =>
        \A i \in DOMAIN occurrences : \A j \in DOMAIN occurrences :
            i < j =>
                /\ DtLE(occurrences[i].start, occurrences[j].start)
                /\ occurrences[i].start = occurrences[j].start
                      => occurrences[i].ev <= occurrences[j].ev

\* a result in which occurrences of two definitions share a start, and in
\* which the second definition's first occurrence precedes one of the first
C11_Witness ==
    /\ epc = "done"
    /\ \E i \in DOMAIN occurrences : \E j \in DOMAIN occurrences :
          /\ i < j
          /\ occurrences[i].start = occurrences[j].start
          /\ occurrences[i].ev = 1
          /\ occurrences[j].ev = 2
    /\ \E i \in DOMAIN occurrences : \E j \in DOMAIN occurrences :
          /\ i < j
          /\ occurrences[i].ev = 2
          /\ occurrences[j].ev = 1

-----------------------------------------------------------------------------
(* Claims about _advance_date *)

\* ceil(d.day / 7): which occurrence of its weekday in its month d is
WeekOfMonth(d) == (d.day + 6) \div 7

NthWeekdayAs(d, anchor) ==
    /\ Weekday(d) = Weekday(anchor)
    /\ WeekOfMonth(d) = WeekOfMonth(anchor)

\* d is in the month k months after the month of c
InMonthAfter(d, c, k) == d.year * 12 + d.month = c.year * 12 + c.month + k

\* the loop is in its series and every cursor so far is an occurrence, so that
\* the last occurrence is the cursor the present cursor was advanced from
Advanced(rule) ==
    /\ epc = "while"
    /\ events[ev].recurrence_rule = rule
    /\ iterations >= 1
    /\ Len(occurrences) = iterations

\* C12: from an anchor that is the n-th (n <= 4) weekday w of its month, every
\* monthly advance yields the n-th weekday w of the month interval months
\* after the cursor's month, at the anchor's time of day, for 24 consecutive
\* advances and more; the event starting Tuesday 2026-03-03 09:00 expanded
\* over April 2026 gives exactly one occurrence, on 2026-04-07 09:00.
C12_MonthlyAnchorStable ==
    /\ Advanced("monthly") /\ WeekOfMonth(events[ev].start_time) <= 4
          => /\ InMonthAfter(cursor, occurrences[iterations].start,
                             IntervalOf(events[ev]))
             /\ NthWeekdayAs(cursor, events[ev].start_time)
             /\ cursor.sod = events[ev].start_time.sod
    /\ ( /\ epc = "done"
         /\ events = <<Event(Dt(2026, 3, 3, 9, 0), 60 * 60, "monthly", 1, <<>>)>>
         /\ range_start = Dt(2026, 4, 1, 0, 0)
         /\ range_end = EndOfDay([year |-> 2026, month |-> 4, day |-> 30]) )
          => occurrences = << [ev |-> 1, start |-> Dt(2026, 4, 7, 9, 0),
                               end |-> Dt(2026, 4, 7, 10, 0)] >>

\* the 24th consecutive advance of an interval-1 monthly series whose anchor
\* is a second Tuesday
C12_Witness ==
    /\ Advanced("monthly")
    /\ events[ev].start_time = Dt(2024, 1, 9, 8, 30)
    /\ events[ev].recurrence_interval = 1
    /\ iterations = 24
    /\ cursor = Dt(2026, 1, 13, 8, 30)

\* C13: also for a fifth-weekday anchor, the date the monthly advance returns
\* is the anchor_week-th occurrence of the anchor's weekday in the month it
\* falls in.
C13_MonthlyKeepsNthWeekday ==
    epc = "while" /\ events[ev].recurrence_rule = "monthly" /\ iterations >= 1
        => NthWeekdayAs(cursor, events[ev].start_time)

\* C14: a yearly advance from Feb 29 into a year that is not a leap year
\* yields Feb 28 of that year, cursor year + interval, at the same time of
\* day.
C14_LeapDayFallsBackToFeb28 ==
    Advanced("yearly") =>
        LET from == occurrences[iterations].start
            year == from.year + IntervalOf(events[ev])
        IN  from.month = 2 /\ from.day = 29 /\ ~IsLeap(year)
                => cursor = [year |-> year, month |-> 2, day |-> 28,
                             sod |-> from.sod]

\* the series anchored on 2024-02-29 was advanced by one year
C14_Witness ==
    /\ Advanced("yearly")
    /\ events[ev].recurrence_interval = 1
    /\ occurrences[iterations].start = Dt(2024, 2, 29, 10, 0)
    /\ cursor = Dt(2025, 2, 28, 10, 0)

\* C15: every occurrence of a yearly rule is on the anchor's month and day,
\* or on Feb 28 of a year that is not a leap year when the anchor is Feb 29;
\* so a Feb 29 series is on Feb 29 again in the next leap year.
C15_YearlyOnAnchorDay ==
    \A k \in DOMAIN occurrences :
        LET anchor == events[occurrences[k].ev].start_time
            start == occurrences[k].start
        IN  events[occurrences[k].ev].recurrence_rule = "yearly" =>
                \/ start.month = anchor.month /\ start.day = anchor.day
                \/ /\ anchor.month = 2 /\ anchor.day = 29
                   /\ ~IsLeap(start.year)
                   /\ start.month = 2 /\ start.day = 28

-----------------------------------------------------------------------------
(* Claims about update_task *)

\* the last call was committed and its request set status to st
Applied(st) ==
    /\ tlast # <<>>
    /\ ~tlast[1].raised
    /\ tlast[1].updates.status = <<st>>

\* the last call set nothing but status
StatusOnly == [f \in DOMAIN Unset |-> tlast[1].updates[f]] = Unset

\* the task of the last call as the request's assignments left it, which is
\* the task the completion handling looked at
Requested == Assigned(tlast[1].before, tlast[1].updates)

RequestedRecurring ==
    Requested.recurrence_rule # "none" /\ Requested.due_date # <<>>

RequestedNextDue ==
    AdvanceDueDate(Requested.due_date[1], Requested.recurrence_rule,
                   Requested.recurrence_interval[1])

C19_LeavingDoneClearsCompletedAt ==
    Applied("pending") \/ Applied("in_progress") => task.completed_at = <<>>

\* a task that was done, with its completed_at, was set to in_progress
C19_Witness ==
    /\ Applied("in_progress")
    /\ tlast[1].before.status = "done"
    /\ tlast[1].before.completed_at # <<>>
    /\ task.status = "in_progress"

-----------------------------------------------------------------------------
(* Claims about the gatherers *)

EntriesOf(h) == { k \in DOMAIN digest_data : digest_data[k].household = h }

\* the names of the sections of the gatherer that ran
SectionNames ==
    IF gkind = "daily" THEN {"events", "tasks_due", "completed"}
    ELSE {"events", "tasks_due"}

-----------------------------------------------------------------------------
(* Further claims about the scheduler *)

\* the loop of this process has evaluated a tick, at now, and is back in its
\* sleep
TickDone == pc = "sleep" /\ now > upSince

\* C22: the weekly run fires on every tick on which the time, mail and
\* last_weekly_sent make it eligible, whatever the daily run of that tick
\* does: also when that daily run raises.
C22_WeeklyFiresWhateverDailyDoes ==
    ( /\ TickDone
      /\ smtp_host
      /\ WeekdayOf(now) = Sunday
      /\ HourOf(now) = digest_weekly_hour
      /\ MinuteOf(now) = 0 )
        => DateOf(now) \in Dates(weeklyLog)

\* C23: a daily (weekly) run that returns sets last_daily_sent
\* (last_weekly_sent) to the tick's date whatever the per-user attempts did,
\* and no later tick of that date starts the run again.
C23_FailedSendsCountAsAttempted ==
    /\ [][ ( /\ pc = "daily_run" /\ rpc = "returned"
             /\ pc' \in {"sleep", "weekly_run"} /\ nrestarts' = nrestarts )
             => last_daily_sent' = DateOf(now) ]_vars
    /\ [][ ( /\ pc = "weekly_run" /\ rpc = "returned"
             /\ pc' = "sleep" /\ nrestarts' = nrestarts )
             => last_weekly_sent' = DateOf(now) ]_vars
    /\ [][ (last_daily_sent # NoDate /\ DateOf(clock') = last_daily_sent)
             => dailyLog' = dailyLog ]_vars
    /\ [][ (last_weekly_sent # NoDate /\ DateOf(clock') = last_weekly_sent)
             => weeklyLog' = weeklyLog ]_vars

\* with mail enabled, where every send raises, a daily run for one user has
\* returned and a later tick of that day was evaluated without a second run
C23_Witness ==
    /\ TickDone
    /\ smtp_host
    /\ dailyUsers = 1
    /\ nrestarts = 0
    /\ last_daily_sent = DateOf(now)
    /\ MinuteOf(now) # 0
    /\ Len(dailyLog) = 1

\* C29: an exception of a run does not end the loop: the loop is back in its
\* sleep with both last-sent dates as they were, and only a cancellation
\* makes it exit; a last-sent date is set only when its run has returned.
C29_ExceptionNeverEndsLoop ==
    /\ [](pc = "exited" => cancelled)
    /\ [][ ( /\ rpc = "raised" /\ ~cancelPending /\ ~cancelPending'
             /\ nrestarts' = nrestarts )
             => /\ pc' = "sleep"
                /\ last_daily_sent' = last_daily_sent
                /\ last_weekly_sent' = last_weekly_sent ]_vars
    /\ [][ (last_daily_sent' # last_daily_sent /\ nrestarts' = nrestarts)
             => pc = "daily_run" /\ rpc = "returned" ]_vars
    /\ [][ (last_weekly_sent' # last_weekly_sent /\ nrestarts' = nrestarts)
             => pc = "weekly_run" /\ rpc = "returned" ]_vars

\* a daily run raised, and the loop has evaluated a later tick
C29_Witness ==
    /\ TickDone
    /\ nrestarts = 0
    /\ ~cancelled
    /\ dailyLog # <<>>
    /\ last_daily_sent = NoDate
    /\ DateOf(now) = dailyLog[1]
    /\ MinuteOf(now) # 0

-----------------------------------------------------------------------------
(* Further claims about expand_event_occurrences                             *)

\* C24: the expansion of every definition comes to an end; the while loop
\* runs at most 1000 times for a definition, so a definition gives at most
\* 1000 occurrences; when the 1000 are used up, also by a rule that leaves
\* the cursor where it is, the loop ends without an error, the next
\* definition is taken up, and what was collected is what is returned.
\* That it comes to an end is stated with the number StepsLeft: until the
\* function has returned it is at the head of the for loop or at the test of
\* the while loop of a definition, and every step lowers the number
StepsLeft ==
    IF epc = "done" THEN 0
    ELSE 1 + (Len(events) + 1 - ev) * (1000 + 2)
           + (IF epc = "while" THEN 1000 - iterations ELSE 1000 + 1)

C24_ExpansionEndsAtCap ==
    /\ [](epc \in {"for", "while", "done"})
    /\ [](epc = "while" => ev \in DOMAIN events)
    /\ [](StepsLeft >= 0)
    /\ [][StepsLeft' < StepsLeft]_vars
    /\ [](iterations <= 1000)
    /\ [](\A i \in DOMAIN events : Cardinality(OccurrencesOf(i)) <= 1000)
    /\ [][ (epc = "while" /\ iterations = 1000)
             => /\ epc' = "for"
                /\ ev' = ev + 1
                /\ occurrences' = occurrences ]_vars
    /\ [][ epc' = "done"
             => \A i \in DOMAIN events :
                  Cardinality({ k \in DOMAIN occurrences' : occurrences'[k].ev = i })
                    = Cardinality(OccurrencesOf(i)) ]_vars

C24_Witness ==
    /\ epc = "done"
    /\ events[1].recurrence_rule = "hourly"
    /\ Len(events) = 2
    /\ Cardinality(OccurrencesOf(1)) = 1000
    /\ Cardinality(OccurrencesOf(2)) = 1
    /\ \A k \in OccurrencesOf(1) : occurrences[k].start = events[1].start_time

\* the calendar date a datetime falls on
OnDate(c, d) == c.year = d.year /\ c.month = d.month /\ c.day = d.day

\* the elements of the series of events[i] that overlap the window, do not
\* start after the end of day of recurrence_end, and are not in the result
MissingOf(i) == SeriesWalk(i, events[i].start_time, SeriesLevels, SeriesBlock).missing

\* C25: for a recurring definition with recurrence_end set no returned
\* occurrence starts after 23:59:59 of the recurrence_end date, and the
\* occurrence of the series that starts on the recurrence_end date and
\* overlaps the window is returned; with recurrence_end absent the window's
\* end is the bound, and no returned occurrence starts after it.
C25_RecurrenceEndIsInclusive ==
    epc = "done" =>
        \A i \in DOMAIN events :
            Recurring(events[i]) =>
                IF events[i].recurrence_end # <<>>
                THEN /\ \A k \in OccurrencesOf(i) :
                            DtLE(occurrences[k].start,
                                 EndOfDay(events[i].recurrence_end[1]))
                     /\ \A c \in MissingOf(i) :
                            ~OnDate(c, events[i].recurrence_end[1])
                ELSE \A k \in OccurrencesOf(i) :
                         DtLE(occurrences[k].start, range_end)

-----------------------------------------------------------------------------
(* Further claims about update_task                                          *)

\* the last call completed a recurring task and reset it to pending
Reset == Applied("done") /\ RequestedRecurring /\ task.status = "pending"

\* C26: last_completed_at changes only in an update that completes a
\* recurring task and resets it to pending; every other update (a field
\* edit, a status change to pending or in_progress, the completion of a task
\* without recurrence, the completion of an exhausted recurrence) leaves
\* last_completed_at as it was and changes due_date only to the value the
\* request gives for it; a call that raises changes nothing.
C26_CompletionIsSingleWriter ==
    tlast # <<>> =>
        LET b == tlast[1].before
            u == tlast[1].updates
        IN  /\ tlast[1].raised => task = b
            /\ task.last_completed_at # b.last_completed_at => Reset
            /\ ~Reset =>
                 /\ task.last_completed_at = b.last_completed_at
                 /\ \/ task.due_date = b.due_date
                    \/ u.due_date # <<>> /\ task.due_date = u.due_date[1]

\* a recurring task that had been completed and reset before was completed
\* at the end of its recurrence, in a request that also moved its due date:
\* it is done, at the due date of the request, and last_completed_at is that
\* of the earlier completion
C26_Witness ==
    /\ Applied("done")
    /\ RequestedRecurring
    /\ task.status = "done"
    /\ tlast[1].updates.due_date = << <<Date(2026, 2, 25)>> >>
    /\ tlast[1].before.due_date # <<Date(2026, 2, 25)>>
    /\ task.due_date = <<Date(2026, 2, 25)>>
    /\ task.last_completed_at # <<>>
    /\ task.last_completed_at = tlast[1].before.last_completed_at
    /\ task.completed_at = <<tlast[1].at>>

\* C27: after create_task and any sequence of update_task calls, with any
\* fields in the requests, completed_at is present if and only if status is
\* done.
C27_CompletedAtIffDone == task.completed_at # <<>> <=> task.status = "done"

\* a task was completed, put back to in_progress, which cleared
\* completed_at, and completed again
C27_Witness ==
    /\ Applied("done")
    /\ tnow = 4
    /\ task.status = "done"
    /\ task.completed_at = <<3>>
    /\ tlast[1].before.status = "in_progress"
    /\ tlast[1].before.completed_at = <<>>
    /\ tlast[1].before.last_completed_at = <<>>

\* the task is recurring with a recurrence_end and a due_date not after it,
\* and if it is done its recurrence is exhausted
WithinRecurrence(t) ==
    /\ t.recurrence_rule # "none"
    /\ t.recurrence_end # <<>>
    /\ t.due_date # <<>>
    /\ t.recurrence_interval # <<>>
    /\ DateLE(t.due_date[1], t.recurrence_end[1])
    /\ t.status = "done" =>
         Exhausted(t, AdvanceDueDate(t.due_date[1], t.recurrence_rule,
                                     t.recurrence_interval[1]))

-----------------------------------------------------------------------------
(* Claims about decode_token and the JWKS cache                              *)

\* caller c's call ends in this step
Ends(c) ==
    /\ apc'[c] = "idle"
    /\ apc[c] # "idle" \/ (ncalls' = ncalls + 1 /\ acaller' = c)

\* a fetch ends in this step, and whether it brought a key set
FetchEnds == jwks_lock # 0 /\ jwks_lock' = 0

FetchFails == FetchEnds /\ flast' \notin KeySets

\* C21: decode_token returns a payload only for a token that validates
\* against the JWKS; a call without credentials raises the 401 without going
\* to the JWKS at all; and a call with an invalid token, a call whose JWKS
\* fetch fails, and a call whose key is not in the JWKS raise the 401.
C21_OnlyValidTokensElse401 ==
    /\ [][ \A c \in Callers :
             (Ends(c) /\ result'[c] = "payload")
               => credentials'[c] = "valid" /\ jwks_cache' = "keys" ]_vars
    /\ [](\A c \in Callers :
             (credentials[c] = "none" /\ result[c] # "none")
               => result[c] = "401" /\ apc[c] = "idle" /\ jwks_lock # c)
    /\ [][ \A c \in Callers :
             (Ends(c) /\ credentials'[c] = "none")
               => /\ result'[c] = "401"
                  /\ UNCHANGED <<jwks_lock, jwks_cache, jwks_cache_time, jnow,
                                 flast, fstored>> ]_vars
    /\ [][ \A c \in Callers :
             ( /\ Ends(c)
               /\ credentials'[c] # "none"
               /\ \/ credentials'[c] = "invalid"
                  \/ FetchFails
                  \/ jwks_cache' # "keys" )
               => result'[c] = "401" ]_vars

\* a key set was stored by a fetch that began less than the TTL before t
StoredWithin(sets, t) ==
    /\ fstored # <<>>
    /\ fstored[1].keys \in sets
    /\ t - fstored[1].at < JWKS_CACHE_TTL

\* the lock serialises _get_jwks: the caller in a fetch is the one that
\* holds the lock
Serialised ==
    \A c \in Callers : apc[c] \in {"discovery", "keys"} <=> jwks_lock = c

\* a fetch that fails leaves the cache and its timestamp as they were
FailureKeepsCache == FetchFails => UNCHANGED <<jwks_cache, jwks_cache_time>>

\* the fetch that is going on did not begin within the TTL of a fetch that
\* stored a key set of sets
NoFetchWithin(sets) == jwks_lock # 0 => ~StoredWithin(sets, jnow)

\* a call with credentials that ends within the TTL of a fetch that stored a
\* key set of sets returns with those keys, and nothing is fetched
CachedWithin(sets) ==
    \A c \in Callers :
        (Ends(c) /\ credentials'[c] # "none" /\ StoredWithin(sets, atime))
          => /\ result'[c] = Decode(credentials'[c], fstored[1].keys)
             /\ UNCHANGED <<jwks_lock, jwks_cache, jwks_cache_time, fstored, flast>>

\* C30, as it is stated: the lock serialises _get_jwks, so at most one
\* caller is in a fetch; once a fetch has succeeded no fetch begins within
\* the 24 hours of the TTL after it, and every call that takes the lock in
\* that time returns with the cached keys; a fetch that fails leaves the
\* cache and its timestamp as they were.
C30_OneFetchPerCacheLifetime ==
    /\ []Serialised
    /\ [][FailureKeepsCache]_vars
    /\ []NoFetchWithin(KeySets)
    /\ [][CachedWithin(KeySets)]_vars

\* C30, amended: the lock serialises _get_jwks, so at most one caller is in
\* a fetch; once a fetch has stored a key set that is not empty, no fetch
\* begins within the 24 hours of the TTL after the time that fetch took when
\* it began, and every call that takes the lock in that time returns with the
\* cached keys; a fetch that fails leaves the cache and its timestamp as they
\* were; a fetch that brings the empty object stores it with its timestamp,
\* and a call with credentials that finds the cache empty fetches.
C30_OneFetchPerStoredKeys ==
    /\ []Serialised
    /\ [][FailureKeepsCache]_vars
    /\ []NoFetchWithin(KeySets \ {"empty"})
    /\ [][CachedWithin(KeySets \ {"empty"})]_vars
    /\ [][ (FetchEnds /\ flast' = "empty")
             => jwks_cache' = "empty" /\ jwks_cache_time' = jnow ]_vars
    /\ [][ \A c \in Callers :
             (Ends(c) /\ credentials'[c] # "none" /\ jwks_cache = "empty")
               => FetchEnds ]_vars

\* three calls and one fetch: the keys were fetched once, one caller waited
\* for the lock meanwhile, and twelve hours after that fetch began a third
\* call has returned a payload as the two before it
C30_Witness ==
    /\ ncalls = 3
    /\ flast = "keys"
    /\ fstored = <<[at |-> AuthStart, keys |-> "keys"]>>
    /\ atime = AuthStart + AuthStep
    /\ jwks_cache_time = AuthStart
    /\ \A c \in Callers : apc[c] = "idle" /\ result[c] = "payload"

====
